---- MODULE Spec2Model ----
(***************************************************************************)
(* Model of src/telegram/notify_train.py: the UK train monitor.  One run   *)
(* (main) loads the configuration and the notification state, polls every  *)
(* configured trip once (check_trip), and saves the state.                 *)
(*                                                                         *)
(* Representation.                                                         *)
(*  - JSON objects are records whose fields hold strings.  The string      *)
(*    Absent marks a key the object does not have and Null a key whose     *)
(*    value is JSON null (Python None); dict.get is the operator Get.      *)
(*  - JSON booleans are "true"/"false"; PyStr is Python's str() on them.   *)
(*  - Wall-clock instants are minutes since the first run.  The record's   *)
(*    timestamp is written with strftime and read back with strptime at    *)
(*    one-second resolution, which loses nothing at minute granularity.    *)
(*  - hashlib.md5 is taken to be collision free: a signature is the        *)
(*    joined component string behind the prefix "md5:".                    *)
(*  - A Python exception is a result with raised = TRUE, or the value      *)
(*    TypeError where a string is expected.                                *)
(***************************************************************************)
EXTENDS Integers, Sequences, FiniteSets, TLC

Absent == "<absent>"
Null == "<null>"
TypeError == "<TypeError>"

\* dict.get(key, default): the default only when the key is missing
Get(d, k, default) == IF d[k] = Absent THEN default ELSE d[k]

\* Python truthiness of a value read with dict.get(key) (no default)
Truthy(v) == v \notin {Absent, Null, "", "false"}

\* str() of a JSON boolean
PyStr(v) == CASE v = "true" -> "True" [] v = "false" -> "False" [] OTHER -> v

\* datetime.strptime(s, '%H:%M') as minutes of the day; -1 when it raises
HM(s) ==
  CASE s = "00:00" -> 0
    [] s = "00:05" -> 5
    [] s = "00:30" -> 30
    [] s = "09:00" -> 540
    [] s = "09:55" -> 595
    [] s = "10:00" -> 600
    [] s = "10:01" -> 601
    [] s = "10:15" -> 615
    [] s = "10:17" -> 617
    [] s = "10:30" -> 630
    [] s = "11:00" -> 660
    [] s = "23:30" -> 1410
    [] s = "23:55" -> 1435
    [] s = "23:59" -> 1439
    [] OTHER -> -1

\* Position of a string in Python's code-point order, for the strings the
\* model uses: "" < "HH:MM" (digits) < "Unknown" (upper-case letter)
StrRank(s) ==
  CASE s = "" -> 0
    [] HM(s) >= 0 -> 1 + HM(s)
    [] OTHER -> 5000

\* Python's  a > b  on two strings
StrGreater(a, b) == StrRank(a) > StrRank(b)

MinutesPerDay == 1440
TooSoonMinutes == 10
FirstTrains == 3

Min(a, b) == IF a < b THEN a ELSE b
Range(f) == {f[x] : x \in DOMAIN f}

(***************************************************************************)
(* get_train_signature                                                     *)
(***************************************************************************)
SignatureComponents(trip_name, train) ==
  << trip_name,
     Get(train, "std", ""),
     Get(train, "etd", ""),
     PyStr(Get(train, "isCancelled", "false")),
     Get(train, "platform", "unknown") >>

\* '|'.join raises TypeError on a None component
get_train_signature(trip_name, train) ==
  LET c == SignatureComponents(trip_name, train) IN
  IF \E i \in 1..Len(c) : c[i] = Null
  THEN TypeError
  ELSE "md5:" \o c[1] \o "|" \o c[2] \o "|" \o c[3] \o "|" \o c[4] \o "|" \o c[5]

(***************************************************************************)
(* The notification record of a trip and the empty dict state.get returns  *)
(***************************************************************************)
EmptyDict ==
  [signature |-> Absent, train_time |-> Absent, timestamp |-> -1, reason |-> Absent]

Decision(n, r) == [raised |-> FALSE, notify |-> n, reason |-> r]
Raised == [raised |-> TRUE, notify |-> FALSE, reason |-> TypeError]

\* the window taken to include its end: time_diff <= 10
TooSoonInclusive(std, last_state, now) ==
  /\ last_state.timestamp >= 0
  /\ now - last_state.timestamp <= TooSoonMinutes
  /\ StrGreater(std, last_state.train_time)

\* lines 82-98: TRUE when the block returns (False, "too_soon")
TooSoon(std, last_state, now) ==
  /\ last_state.timestamp >= 0
  /\ now - last_state.timestamp < TooSoonMinutes
  /\ StrGreater(std, last_state.train_time)

should_notify_train(trip_name, train, last_state, now) ==
  LET std == Get(train, "std", "") IN
  IF last_state # EmptyDict /\ last_state.train_time = std
  THEN LET current_signature == get_train_signature(trip_name, train) IN
       IF current_signature = TypeError THEN Raised
       ELSE IF current_signature = last_state.signature
       THEN Decision(FALSE, "duplicate")
       ELSE Decision(TRUE, "changed")
  ELSE IF last_state # EmptyDict /\ Truthy(last_state.train_time)
  THEN IF TooSoon(std, last_state, now)
       THEN Decision(FALSE, "too_soon")
       ELSE Decision(TRUE, "new_train")
  ELSE Decision(TRUE, "first_notification")

(***************************************************************************)
(* is_time_in_range, is_day_active, parse_delay_minutes                    *)
(***************************************************************************)
\* a window that leaves out its end
is_time_in_rangeExclusive(current, start, end) ==
  IF start < 0 \/ end < 0 \/ current < 0
  THEN [raised |-> TRUE, in_range |-> FALSE]
  ELSE [raised |-> FALSE,
        in_range |-> IF start <= end
                     THEN start <= current /\ current < end
                     ELSE current >= start \/ current < end]

\* current, start, end are the parsed minutes of the day, -1 for a string
\* strptime rejects (ValueError)
is_time_in_range(current, start, end) ==
  IF start < 0 \/ end < 0 \/ current < 0
  THEN [raised |-> TRUE, in_range |-> FALSE]
  ELSE [raised |-> FALSE,
        in_range |-> IF start <= end
                     THEN start <= current /\ current <= end
                     ELSE current >= start \/ current <= end]

\* str.lower on the weekday names the model uses
Lower(s) ==
  CASE s \in {"Monday", "MONDAY", "monday"} -> "monday"
    [] s \in {"Tuesday", "TUESDAY", "tuesday"} -> "tuesday"
    [] OTHER -> s

\* a day check that lets every day through
is_day_activeAlways(current_day, active_days) == TRUE

is_day_active(current_day, active_days) ==
  Lower(current_day) \in {Lower(day) : day \in active_days}

\* a delay without the next-day adjustment of lines 149-150
parse_delay_minutesSameDay(etd, std) ==
  IF etd = "Delayed" \/ etd = "On time" THEN 0
  ELSE IF HM(etd) < 0 \/ HM(std) < 0 THEN 0
  ELSE HM(etd) - HM(std)

parse_delay_minutes(etd, std) ==
  IF etd = "Delayed" \/ etd = "On time" THEN 0
  ELSE IF HM(etd) < 0 \/ HM(std) < 0 THEN 0
  ELSE IF HM(etd) < HM(std)
       THEN HM(etd) + MinutesPerDay - HM(std)
       ELSE HM(etd) - HM(std)

(***************************************************************************)
(* check_trip                                                              *)
(***************************************************************************)
ClockStart == 595
DayNames ==
  <<"Monday", "Tuesday", "Wednesday", "Thursday", "Friday", "Saturday", "Sunday">>

\* now.strftime('%A') and now.strftime('%H:%M'), the latter already parsed
Weekday(t) == DayNames[(((ClockStart + t) \div MinutesPerDay) % 7) + 1]
MinuteOfDay(t) == (ClockStart + t) % MinutesPerDay

\* train.get(key) without default: None for a missing key
GetNone(d, k) == Get(d, k, Null)

\* lines 209-243: is this train notification-worthy, and the reason
Eligibility(trip, train) ==
  LET etd == Get(train, "etd", GetNone(train, "std"))
      platform == GetNone(train, "platform")
      is_cancelled == Get(train, "isCancelled", "false")
  IN
  IF Truthy(is_cancelled)
  THEN [notify |-> TRUE, reason |-> "CANCELLED"]
  ELSE IF etd # "On time" /\ etd # GetNone(train, "std")
  THEN LET delay_mins == parse_delay_minutes(etd, GetNone(train, "std")) IN
       IF delay_mins >= trip.criteria.delay_threshold_minutes
       THEN [notify |-> TRUE, reason |-> "DELAYED " \o ToString(delay_mins) \o "min"]
       ELSE [notify |-> FALSE, reason |-> Absent]
  ELSE IF Truthy(platform) /\ trip.criteria.notify_platform
  THEN [notify |-> TRUE, reason |-> "ON TIME - Platform " \o platform]
  ELSE [notify |-> FALSE, reason |-> Absent]

\* state.get(trip_name, {})
LastState(state, trip_name) ==
  IF trip_name \in DOMAIN state THEN state[trip_name] ELSE EmptyDict

\* a store that keeps the record of this trip only
PutAlone(state, trip_name, rec) == [n \in {trip_name} |-> rec]

\* state[trip_name] = record
Put(state, trip_name, rec) ==
  [n \in DOMAIN state \cup {trip_name} |-> IF n = trip_name THEN rec ELSE state[n]]

\* lines 208-307: the loop over trains[:3].  evals lists, for every train the
\* loop body ran on, its position, whether it was notification-worthy and
\* the decision of should_notify_train ("-" when it was not asked).
RECURSIVE Scan(_, _, _, _, _, _)
Scan(trip, last_state, trains, i, now, evals) ==
  IF i > Min(FirstTrains, Len(trains))
  THEN [kind |-> "none", i |-> 0, reason |-> Absent, evals |-> evals]
  ELSE
    LET train == trains[i]
        el == Eligibility(trip, train)
    IN
    IF ~el.notify
    THEN Scan(trip, last_state, trains, i + 1, now,
              Append(evals, [i |-> i, worthy |-> FALSE, decision |-> "-"]))
    ELSE
      LET d == should_notify_train(trip.name, train, last_state, now)
          ev == Append(evals, [i |-> i, worthy |-> TRUE, decision |-> d.reason])
      IN
      IF d.raised
      THEN [kind |-> "raised", i |-> i, reason |-> el.reason, evals |-> ev]
      ELSE IF ~d.notify
      THEN Scan(trip, last_state, trains, i + 1, now, ev)
      ELSE [kind |-> "approved", i |-> i, reason |-> el.reason, evals |-> ev]

\* lines 298-303: the record check_trip stores after an alert
NewRecord(current_signature, train, now, notification_reason) ==
  [signature |-> current_signature,
   train_time |-> Get(train, "std", "Unknown"),
   timestamp |-> now,
   reason |-> notification_reason]

\* a send_telegram that lets urlopen's exception escape
send_telegramRaising(net) == IF net = "ok" THEN "result" ELSE "raise"

\* send_telegram: urlopen's failure is caught and None returned
send_telegram(net) == IF net = "ok" THEN "result" ELSE "None"

TripResult(raised, state, fetched, caught, sent, evals) ==
  [raised |-> raised, state |-> state, fetched |-> fetched, caught |-> caught,
   sent |-> sent, evals |-> evals]

\* a departures request whose exception escapes check_trip
FetchFailureUncaught(state) == TripResult(TRUE, state, TRUE, FALSE, <<>>, <<>>)

\* lines 185-187 and 309-312: the departures request raises, the handler
\* prints the error and check_trip returns the state it was given
FetchFailure(state) == TripResult(FALSE, state, TRUE, TRUE, <<>>, <<>>)

\* io = [fetch, feed, net]: the outcome of the departures request, the
\* trainServices it returned and the outcome of the Telegram request
check_trip(trip, state, now, io) ==
  IF ~is_day_active(Weekday(now), trip.days)
  THEN TripResult(FALSE, state, FALSE, FALSE, <<>>, <<>>)
  ELSE
  LET w == is_time_in_range(MinuteOfDay(now), HM(trip.time_start), HM(trip.time_end)) IN
  IF w.raised
  THEN TripResult(TRUE, state, FALSE, FALSE, <<>>, <<>>)
  ELSE IF ~w.in_range
  THEN TripResult(FALSE, state, FALSE, FALSE, <<>>, <<>>)
  ELSE IF io.fetch # "ok"
  THEN FetchFailure(state)
  ELSE IF io.feed = <<>>
  THEN TripResult(FALSE, state, TRUE, FALSE, <<>>, <<>>)
  ELSE
  LET last_state == LastState(state, trip.name)
      s == Scan(trip, last_state, io.feed, 1, now, <<>>)
  IN
  IF s.kind = "none"
  THEN TripResult(FALSE, state, TRUE, FALSE, <<>>, s.evals)
  ELSE IF s.kind = "raised"
  THEN TripResult(FALSE, state, TRUE, TRUE, <<>>, s.evals)
  ELSE
  LET train == io.feed[s.i]
      sent == << [trip |-> trip.name, i |-> s.i, train |-> train,
                  reason |-> s.reason, result |-> send_telegram(io.net)] >>
      current_signature == get_train_signature(trip.name, train)
  IN
  IF sent[1].result = "raise" \/ current_signature = TypeError
  THEN TripResult(FALSE, state, TRUE, TRUE, sent, s.evals)
  ELSE TripResult(FALSE,
                  Put(state, trip.name, NewRecord(current_signature, train, now, s.reason)),
                  TRUE, FALSE, sent, s.evals)

(***************************************************************************)
(* load_state, save_state                                                  *)
(***************************************************************************)
\* The state file: missing, unparseable ("corrupt", data being what the
\* interrupted writer was writing) or a JSON mapping
File(kind, data) == [kind |-> kind, data |-> data]

\* a load_state that takes whatever mapping an unparseable file was meant to hold
load_stateLenient(f) == IF f.kind = "missing" THEN <<>> ELSE f.data

load_state(f) == IF f.kind = "valid" THEN f.data ELSE <<>>

\* outcome "ok": written; "open": open() raised, the file is untouched;
\* "dump": open() truncated the file and json.dump raised part-way
save_state(f, st, outcome) ==
  CASE outcome = "ok" -> File("valid", st)
    [] outcome = "open" -> f
    [] OTHER -> File("corrupt", st)

(***************************************************************************)
(* Inputs: the departure feed and the configuration                        *)
(***************************************************************************)
Train(std, etd, isCancelled, platform) ==
  [std |-> std, etd |-> etd, isCancelled |-> isCancelled, platform |-> platform]

TrainA == Train("10:00", "On time", "false", "4")
TrainC == Train("10:00", "Cancelled", "true", Absent)
TrainN == Train("10:00", "Cancelled", "true", Null)
TrainB == Train("10:15", "10:30", "false", Absent)
TrainE == Train("09:55", "10:01", "false", "4")
TrainU == Train(Absent, Absent, "true", "4")
TrainD == Train("10:15", "Delayed", Absent, "4")
TrainQ == Train("10:15", "On time", "false", Null)

TrainPool == {TrainA, TrainC, TrainN, TrainB, TrainE, TrainU, TrainD, TrainQ}
RunPool == {TrainA, TrainB}

MaxFeed == 2

Quiet(k) == [i \in 1..k |-> TrainQ]

FeedsOver(pool) == UNION {[1..n -> pool] : n \in 0..MaxFeed}

\* short feeds, and the same behind three trains that need no notification
PollFeeds ==
  FeedsOver(TrainPool) \cup {Quiet(FirstTrains) \o s : s \in FeedsOver(TrainPool)}

RunFeeds == FeedsOver(RunPool)

Criteria(nc, nd, np, thr) ==
  [notify_cancelled |-> nc, notify_delayed |-> nd, notify_platform |-> np,
   delay_threshold_minutes |-> thr]

Trip(name, days, time_start, time_end, criteria) ==
  [name |-> name, days |-> days, time_start |-> time_start,
   time_end |-> time_end, criteria |-> criteria]

DefaultThreshold == 5

AllOn == Criteria(TRUE, TRUE, TRUE, DefaultThreshold)
AllOff == Criteria(FALSE, FALSE, FALSE, DefaultThreshold)

R1 == Trip("r1", {"Monday", "Tuesday"}, "09:00", "11:00", AllOn)
R1Off == Trip("r1", {"Monday", "Tuesday"}, "09:00", "11:00", AllOff)
R2 == Trip("r2", {"MONDAY"}, "09:00", "11:00", AllOn)
R2Bad == Trip("r2", {"monday"}, "9am", "11:00", AllOn)
R2Inactive == Trip("r2", {"Tuesday"}, "09:00", "11:00", AllOn)
R2Outside == Trip("r2", {"Monday"}, "23:30", "00:30", AllOn)

Unloadable == <<"unloadable">>

\* config.json: unreadable, or its list of trips
Configs ==
  { Unloadable, <<R1, R2>>, <<R1, R2Bad>>, <<R2Bad, R1>>,
    <<R1, R2Inactive>>, <<R1, R2Outside>> }

(***************************************************************************)
(* The run: main                                                           *)
(***************************************************************************)
VARIABLES
  pc,           \* "start", "loop", "done", "crashed", "exit1"
  config,       \* the content of config.json
  file,         \* the state file
  state,        \* main's local variable state
  idx,          \* position of the loop over config['trips']
  now,          \* the wall clock, minutes
  poll,         \* history: the last check_trip call, its inputs and result
  loads,        \* history: load_state calls of this run
  saves,        \* history: save_state calls of this run
  active_trips, \* main's counter for the summary
  exit_code,    \* the process exit code of the last finished run, -1 before
  alerts,       \* history: the send_telegram calls of this run and their results
  runs          \* runs started so far

vars ==
  <<pc, config, file, state, idx, now, poll, loads, saves, active_trips,
    exit_code, alerts, runs>>

MaxRuns == 2
TickMinutes == 5

NoPoll == [name |-> Absent]

Init ==
  /\ pc = "start"
  /\ config \in Configs
  /\ file \in {File("missing", <<>>), File("corrupt", <<>>)}
  /\ state = <<>>
  /\ idx = 0
  /\ now = 0
  /\ poll = NoPoll
  /\ loads = 0
  /\ saves = 0
  /\ active_trips = 0
  /\ exit_code = -1
  /\ alerts = {}
  /\ runs = 1

\* lines 329-336: load_config raises, sys.exit(1)
ConfigError ==
  /\ pc = "start"
  /\ config = Unloadable
  /\ pc' = "exit1"
  /\ exit_code' = 1
  /\ UNCHANGED <<config, file, state, idx, now, poll, loads, saves, active_trips,
                 alerts, runs>>

\* lines 329-342: the configuration loads, then load_state
LoadState ==
  /\ pc = "start"
  /\ config # Unloadable
  /\ state' = load_state(file)
  /\ loads' = loads + 1
  /\ idx' = 1
  /\ active_trips' = 0
  /\ pc' = "loop"
  /\ UNCHANGED <<config, file, now, poll, saves, exit_code, alerts, runs>>

\* lines 169-177 and 351-352: the trip is active now (FALSE when the window raises)
Active(trip, t) ==
  /\ is_day_active(Weekday(t), trip.days)
  /\ is_time_in_range(MinuteOfDay(t), HM(trip.time_start), HM(trip.time_end)).in_range

IO(fetch, feed, net) == [fetch |-> fetch, feed |-> feed, net |-> net]

\* The outcomes of the requests one check_trip call makes: none for a trip
\* that is skipped, else the departures request fails, or returns a feed and
\* the Telegram request (made only when an alert is sent) succeeds or fails
Requests(feeds, active) ==
  IF active
  THEN {IO("error", <<>>, "ok")} \cup
       {IO("ok", feed, net) : feed \in feeds, net \in {"ok", "fail"}}
  ELSE {IO("ok", <<>>, "ok")}

\* lines 345-353: check_trip on the current trip with the given outcomes of
\* its requests, then the count for the summary
Iterate(io) ==
  LET trip == config[idx]
      res == check_trip(trip, state, now, io)
  IN
  /\ poll' = [name |-> trip.name, trip |-> trip, idx |-> idx, before |-> state,
              last_state |-> LastState(state, trip.name),
              io |-> IF res.sent = <<>> THEN IO(io.fetch, io.feed, "ok") ELSE io,
              now |-> now, res |-> res]
  /\ alerts' = alerts \cup {[name |-> a.trip, result |-> a.result] : a \in Range(res.sent)}
  /\ IF res.raised
     THEN /\ pc' = "crashed"
          /\ exit_code' = 1
          /\ UNCHANGED <<state, idx, active_trips>>
     ELSE /\ state' = res.state
          /\ idx' = idx + 1
          /\ active_trips' = IF Active(trip, now) THEN active_trips + 1 ELSE active_trips
          /\ UNCHANGED <<pc, exit_code>>
  /\ UNCHANGED <<config, file, now, loads, saves, runs>>

\* one iteration of the loop over the trips
CheckTripOver(feeds) ==
  /\ pc \in {"loop", "poll"}
  /\ idx <= Len(config)
  /\ \E io \in Requests(feeds, Active(config[idx], now)) : Iterate(io)

CheckTrip == CheckTripOver(RunFeeds)

\* lines 355-360: save_state and the normal end of main
SaveState ==
  /\ pc = "loop"
  /\ idx > Len(config)
  /\ \E outcome \in {"ok", "open", "dump"} :
       file' = save_state(file, state, outcome)
  /\ saves' = saves + 1
  /\ pc' = "done"
  /\ exit_code' = 0
  /\ UNCHANGED <<config, state, idx, now, poll, loads, active_trips, alerts, runs>>

\* the external scheduler starts the program again, some minutes later
NextRun ==
  /\ pc \in {"done", "crashed", "exit1"}
  /\ runs < MaxRuns
  /\ \E k \in 0..2 : now' = now + k * TickMinutes
  /\ pc' = "start"
  /\ state' = <<>>
  /\ idx' = 0
  /\ poll' = NoPoll
  /\ loads' = 0
  /\ saves' = 0
  /\ active_trips' = 0
  /\ alerts' = {}
  /\ runs' = runs + 1
  /\ UNCHANGED <<config, file, exit_code>>

Next == ConfigError \/ LoadState \/ CheckTrip \/ SaveState \/ NextRun

Spec == Init /\ [][Next]_vars

(***************************************************************************)
(* One poll of one trip (check_trip), from every record an earlier run can *)
(* have left for it, on every feed                                         *)
(***************************************************************************)
\* the record check_trip writes for an alert on this train at time t, under
\* the default criteria
RecordOf(trip_name, train, t) ==
  NewRecord(get_train_signature(trip_name, train), train, t,
            Eligibility(R1, train).reason)

\* the trains check_trip can write a record for
Recordable(trains) ==
  {tr \in trains : /\ Eligibility(R1, tr).notify
                   /\ get_train_signature("r1", tr) # TypeError}

\* minutes since the last alert: none, just under and exactly the window
Elapsed == {0, TooSoonMinutes - 1, TooSoonMinutes}

PollNow == TooSoonMinutes

PriorRecords(trains) ==
  {RecordOf("r1", tr, PollNow - e) : tr \in Recordable(trains), e \in Elapsed}

OtherRecord == RecordOf("r2", TrainC, 0)

\* the state before the poll: a record of another trip, and none or one of r1
PriorStates ==
  {[n \in {"r2"} |-> OtherRecord]} \cup
  {[n \in {"r1", "r2"} |-> IF n = "r1" THEN rec ELSE OtherRecord] :
     rec \in PriorRecords(TrainPool)}

PollTrips ==
  {Trip("r1", {"Monday"}, "09:00", "11:00", Criteria(nc, nd, np, DefaultThreshold)) :
     nc \in BOOLEAN, nd \in BOOLEAN, np \in BOOLEAN}

InitPoll ==
  /\ pc = "poll"
  /\ config \in {<<trip>> : trip \in PollTrips}
  /\ file = File("valid", <<>>)
  /\ state \in PriorStates
  /\ idx = 1
  /\ now = PollNow
  /\ poll = NoPoll
  /\ loads = 1
  /\ saves = 0
  /\ active_trips = 0
  /\ exit_code = -1
  /\ alerts = {}
  /\ runs = 1

Poll == CheckTripOver(PollFeeds)

NextPoll == Poll

SpecPoll == InitPoll /\ [][NextPoll]_vars

(***************************************************************************)
(* One decision (should_notify_train), on every observation and record     *)
(***************************************************************************)
AllTrains ==
  {Train(std, etd, c, p) :
     std \in {Absent, "09:55", "10:00", "10:15"},
     etd \in {Absent, "On time", "10:30"},
     c \in {Absent, "true", "false"},
     p \in {Absent, Null, "4"}}

NoDecision == [raised |-> FALSE, notify |-> FALSE, reason |-> Absent]

InitDecide ==
  /\ pc = "decide"
  /\ config = <<R1>>
  /\ file = File("valid", <<>>)
  /\ state = <<>>
  /\ idx = 1
  /\ now = PollNow
  /\ poll = NoPoll
  /\ loads = 1
  /\ saves = 0
  /\ active_trips = 0
  /\ exit_code = -1
  /\ alerts = {}
  /\ runs = 1

\* should_notify_train on a notification-worthy train; when it approves, the
\* record update of lines 297-303 and the decision on the same train again
Decide ==
  /\ pc = "decide"
  /\ \E train \in {tr \in AllTrains : Eligibility(R1, tr).notify},
        last_state \in {EmptyDict} \cup PriorRecords(AllTrains) :
       LET d == should_notify_train("r1", train, last_state, now)
           sig == get_train_signature("r1", train)
           rec == NewRecord(sig, train, now, Eligibility(R1, train).reason)
           updated == d.notify /\ sig # TypeError
       IN
       poll' = [name |-> "decide", train |-> train, last_state |-> last_state,
                now |-> now, d |-> d, updated |-> updated,
                rec |-> IF updated THEN rec ELSE last_state,
                again |-> IF updated
                          THEN should_notify_train("r1", train, rec, now)
                          ELSE NoDecision]
  /\ pc' = "decided"
  /\ UNCHANGED <<config, file, state, idx, now, loads, saves, active_trips,
                 exit_code, alerts, runs>>

NextDecide == Decide

SpecDecide == InitDecide /\ [][NextDecide]_vars

(***************************************************************************)
(* The two time functions (is_time_in_range, parse_delay_minutes), on      *)
(* every triple of the strings below                                       *)
(***************************************************************************)
Clock ==
  {"00:00", "00:05", "00:30", "09:00", "09:55", "10:00", "10:01", "10:15",
   "10:17", "10:30", "11:00", "23:30", "23:55", "23:59"}

\* what a feed or a configuration can hold where a time is expected
TimeStrings == Clock \cup {"Delayed", "On time", "9am", Null}

InitTimes ==
  /\ pc = "times"
  /\ config = <<R1>>
  /\ file = File("valid", <<>>)
  /\ state = <<>>
  /\ idx = 1
  /\ now = 0
  /\ poll \in {[name |-> "times", a |-> a, b |-> b, c |-> c] :
                 a \in TimeStrings, b \in TimeStrings, c \in Clock \cup {"9am"}}
  /\ loads = 1
  /\ saves = 0
  /\ active_trips = 0
  /\ exit_code = -1
  /\ alerts = {}
  /\ runs = 1

\* is_time_in_range(current_time, start_time, end_time)
TimeInRange ==
  /\ pc = "times"
  /\ poll' = [name |-> "range", current |-> poll.c, start |-> poll.a, end |-> poll.b,
              res |-> is_time_in_range(HM(poll.c), HM(poll.a), HM(poll.b))]
  /\ pc' = "timed"
  /\ UNCHANGED <<config, file, state, idx, now, loads, saves, active_trips,
                 exit_code, alerts, runs>>

\* parse_delay_minutes(etd, std)
ParseDelay ==
  /\ pc = "times"
  /\ poll' = [name |-> "delay", etd |-> poll.a, std |-> poll.b,
              res |-> parse_delay_minutes(poll.a, poll.b)]
  /\ pc' = "timed"
  /\ UNCHANGED <<config, file, state, idx, now, loads, saves, active_trips,
                 exit_code, alerts, runs>>

NextTimes == TimeInRange \/ ParseDelay

SpecTimes == InitTimes /\ [][NextTimes]_vars

(***************************************************************************)
(* One trip polled run after run while its departure feed stays the same   *)
(***************************************************************************)
MaxPolls == 3

\* the departures request returns what it returned on the poll before
RepeatRequests ==
  IF poll = NoPoll
  THEN {IO("ok", feed, "ok") : feed \in FeedsOver(TrainPool)}
  ELSE {IO("ok", poll.io.feed, "ok")}

InitRepeat ==
  /\ pc = "repeat"
  /\ config = <<R1>>
  /\ file = File("missing", <<>>)
  /\ state = <<>>
  /\ idx = 1
  /\ now = 0
  /\ poll = NoPoll
  /\ loads = 1
  /\ saves = 0
  /\ active_trips = 0
  /\ exit_code = -1
  /\ alerts = {}
  /\ runs = 1

\* lines 345-353: the run's one check_trip call
RepeatPoll ==
  /\ pc = "repeat"
  /\ idx = 1
  /\ \E io \in RepeatRequests : Iterate(io)

\* lines 355-356 and 338-339: the run saves the state and ends; some minutes
\* later the next run loads what was saved
RepeatRun ==
  /\ pc = "repeat"
  /\ idx = 2
  /\ runs < MaxPolls
  /\ file' = save_state(file, state, "ok")
  /\ state' = load_state(file')
  /\ \E k \in 0..3 : now' = now + k * TickMinutes
  /\ idx' = 1
  /\ runs' = runs + 1
  /\ loads' = 1
  /\ saves' = 0
  /\ active_trips' = 0
  /\ exit_code' = 0
  /\ UNCHANGED <<pc, config, poll, alerts>>

NextRepeat == RepeatPoll \/ RepeatRun

SpecRepeat == InitRepeat /\ [][NextRepeat]_vars

(***************************************************************************)
(* Properties                                                              *)
(***************************************************************************)
\* the last step was a check_trip call / a should_notify_train call
Polled == poll.name \notin {Absent, "decide"}
Decided == poll.name = "decide"

ApproveReasons == {"first_notification", "changed", "new_train"}
SuppressReasons == {"duplicate", "too_soon"}

\* the signature as the specification defines it: platform-or-"unknown",
\* whether the platform is missing or null
ClaimSignature(trip_name, train) ==
  get_train_signature(trip_name,
    [train EXCEPT !.platform = IF @ = Null THEN Absent ELSE @])

\* the train at position i of the polled feed
PolledTrain(i) == poll.io.feed[i]

\* C1: whenever should_notify_train approves a notification-worthy train in
\* check_trip, exactly one message is dispatched, for that train, and the
\* trip's record then holds the train's signature, its scheduled time, the
\* current timestamp and the triggering reason ("CANCELLED" for a cancelled
\* train) -- for every observation, a null platform included.
C1_ApprovedAlertIsRecorded ==
  Polled =>
    \A k \in DOMAIN poll.res.evals :
      LET e == poll.res.evals[k]
          train == PolledTrain(e.i)
      IN
      e.decision \in ApproveReasons =>
        /\ Len(poll.res.sent) = 1
        /\ poll.res.sent[1].train = train
        /\ poll.name \in DOMAIN poll.res.state
        /\ LET rec == poll.res.state[poll.name] IN
           /\ rec.signature = ClaimSignature(poll.name, train)
           /\ rec.train_time = Get(train, "std", "Unknown")
           /\ rec.timestamp = poll.now
           /\ rec.reason = poll.res.sent[1].reason
           /\ (train.isCancelled = "true" => rec.reason = "CANCELLED")

\* C2: within one poll, evaluation stops at the first notification-worthy
\* train whether it is approved or suppressed: no train after it is
\* evaluated.
C2_StopsAtFirstWorthy ==
  Polled =>
    \A k \in DOMAIN poll.res.evals :
      poll.res.evals[k].worthy => k = Len(poll.res.evals)

\* C3: when should_notify_train approves an observation and the record is
\* updated as check_trip does, the decision on the same observation at the
\* same instant is Suppress("duplicate"), whatever the scheduled time.
C3_SecondDecisionIsDuplicate ==
  (Decided /\ poll.updated) => poll.again = Decision(FALSE, "duplicate")

\* C4: when the record's train_time equals the observation's scheduled time,
\* the decision is Suppress("duplicate") if the signature over (trip name,
\* scheduled time, estimated time, cancelled flag, platform-or-"unknown")
\* equals the recorded one and Approve("changed") otherwise, whatever time
\* has elapsed.
C4_SameTrainDuplicateOrChanged ==
  (/\ Decided
   /\ poll.last_state # EmptyDict
   /\ poll.last_state.train_time = Get(poll.train, "std", ""))
  => poll.d = IF ClaimSignature("r1", poll.train) = poll.last_state.signature
              THEN Decision(FALSE, "duplicate")
              ELSE Decision(TRUE, "changed")

ClaimWorthy(trip, train) ==
  LET std == GetNone(train, "std")
      etd == Get(train, "etd", std)
      cancelled == train.isCancelled = "true"
      on_time == ~cancelled /\ (etd = "On time" \/ etd = std)
      delayed == /\ ~cancelled
                 /\ ~on_time
                 /\ parse_delay_minutes(etd, std) >= trip.criteria.delay_threshold_minutes
  IN
  \/ cancelled /\ trip.criteria.notify_cancelled
  \/ delayed /\ trip.criteria.notify_delayed
  \/ on_time /\ Truthy(GetNone(train, "platform")) /\ trip.criteria.notify_platform

\* C6: a train is notification-worthy exactly when it is cancelled and
\* notify_cancelled is on, or delayed by at least the threshold and
\* notify_delayed is on, or on time with a known platform and
\* notify_platform is on.
C6_WorthyIffCriterionEnabled ==
  Polled =>
    \A k \in DOMAIN poll.res.evals :
      poll.res.evals[k].worthy
        = ClaimWorthy(poll.trip, PolledTrain(poll.res.evals[k].i))

\* C7: a missing or corrupt state file is loaded as the empty mapping and
\* the run goes on; and for a trip without a record the first
\* notification-worthy train is approved as "first_notification".
C7_NoHistoryIsFirstNotification ==
  /\ (pc = "loop" /\ idx = 1 /\ file.kind # "valid") => state = <<>>
  /\ (Polled /\ poll.last_state = EmptyDict) =>
       \A k \in DOMAIN poll.res.evals :
         poll.res.evals[k].worthy =>
           poll.res.evals[k].decision = "first_notification"

\* C7 happens: a run that found a corrupt state file, left by a failed
\* save of a record, alerts as on a first notification
C7_Witness ==
  /\ Polled
  /\ runs = 2
  /\ file.kind = "corrupt"
  /\ "r1" \in DOMAIN file.data
  /\ poll.name = "r1"
  /\ poll.last_state = EmptyDict
  /\ poll.res.sent # <<>>
  /\ poll.res.evals[1].decision = "first_notification"

\* the last check_trip call sent an alert whose delivery failed
DeliveryFailed ==
  Polled /\ poll.res.sent # <<>> /\ poll.res.sent[1].result # "result"

\* the same call had the delivery succeeded
AsIfSent ==
  check_trip(poll.trip, poll.before, poll.now, IO("ok", poll.io.feed, "ok"))

\* C8: a delivery failure is not fatal: the call returns the state it
\* returns after a successful delivery (the record overwritten), the loop
\* goes on with the next trip, a run never aborts in a call that sent an
\* alert, and a run that ends normally has processed every trip and saved.
C8_DeliveryFailureIsNotFatal ==
  /\ DeliveryFailed =>
       /\ ~poll.res.raised
       /\ poll.res.state = AsIfSent.state
       /\ pc = "loop" => idx = poll.idx + 1
  /\ (\E a \in alerts : a.result # "result") =>
       /\ pc = "crashed" => poll.res.sent = <<>>
       /\ pc = "done" => (saves = 1 /\ idx = Len(config) + 1)

\* C8 happens: the alert of the first trip failed, the second trip was
\* polled and the saved state holds the first trip's new record
C8_Witness ==
  /\ pc = "done"
  /\ [name |-> "r1", result |-> "None"] \in alerts
  /\ poll.name = "r2"
  /\ file.kind = "valid"
  /\ "r1" \in DOMAIN file.data
  /\ file.data["r1"].timestamp = now

\* C9: a failed departures request is caught: no alert for that trip, the
\* state unchanged, and the loop goes on with the next trip.
C9_FetchErrorSkipsOnlyThatTrip ==
  (Polled /\ poll.io.fetch = "error") =>
    /\ ~poll.res.raised
    /\ poll.res.sent = <<>>
    /\ poll.res.state = poll.before
    /\ pc # "crashed"
    /\ pc = "loop" => (idx = poll.idx + 1 /\ state = poll.before)

\* C9 happens: the first trip's request failed and the second is up next
C9_Witness ==
  /\ Polled
  /\ poll.io.fetch = "error"
  /\ poll.idx = 1
  /\ pc = "loop"
  /\ idx = 2
  /\ Len(config) = 2

\* C10: in every run whose configuration loads, the state is loaded exactly
\* once before any trip is processed, not saved between trips, and saved
\* exactly once by the end of the run.
C10_LoadedOnceSavedOnce ==
  /\ pc = "loop" => (loads = 1 /\ saves = 0)
  /\ pc \in {"done", "crashed"} => (loads = 1 /\ saves = 1)

\* the notification state in force: main's mapping while the loop runs, the
\* content of the state file before, after and between runs
Mapping == IF pc = "loop" THEN state ELSE load_state(file)

\* the step is a save_state call that did not write the mapping
SaveFailed == pc = "loop" /\ pc' = "done" /\ file' # File("valid", state)

\* C11: the state maps each trip name to one record, and a trip that has a
\* record has one in every later state, across polls and runs: no step other
\* than a failed save takes a record away.
C11_RecordsAreNeverDeleted ==
  [][SaveFailed \/ \A n \in DOMAIN Mapping : n \in DOMAIN Mapping']_vars

\* C12: a run exits with code 1 exactly when the configuration cannot be
\* loaded, and then it has loaded no state, polled no trip, sent no alert and
\* saved nothing; every other run exits with code 0.
C12_ExitOneIffConfigUnloadable ==
  /\ pc = "exit1" =>
       /\ config = Unloadable
       /\ exit_code = 1
       /\ loads = 0 /\ saves = 0 /\ alerts = {} /\ poll = NoPoll
  /\ pc \in {"done", "crashed"} => (config # Unloadable /\ exit_code = 0)

\* the minutes of the day inside the window start..end, both ends included,
\* through midnight when start is after end
Window(start, end) ==
  IF start <= end
  THEN start..end
  ELSE (start..(MinutesPerDay - 1)) \cup (0..end)

\* C13: for all times start, end and current, is_time_in_range is true
\* exactly when start <= current <= end if start <= end, and exactly when
\* current >= start or current <= end if start > end.
C13_InRangeIffInsideWindow ==
  (/\ poll.name = "range"
   /\ HM(poll.start) >= 0 /\ HM(poll.end) >= 0 /\ HM(poll.current) >= 0)
  => /\ ~poll.res.raised
     /\ poll.res.in_range = (HM(poll.current) \in Window(HM(poll.start), HM(poll.end)))

\* C13 happens: a window through midnight holds its own end
C13_Witness ==
  /\ poll.name = "range"
  /\ poll.start = "23:30"
  /\ poll.end = "00:30"
  /\ poll.current = "00:30"
  /\ poll.res.in_range

\* C14: parse_delay_minutes returns a non-negative integer: 0 for "Delayed",
\* for "On time" and for input that does not parse, and for two HH:MM times
\* the minutes from scheduled to estimated modulo 1440.
C14_DelayIsNonNegativeModuloDay ==
  poll.name = "delay" =>
    /\ poll.res \in Nat
    /\ poll.etd \in {"Delayed", "On time"} => poll.res = 0
    /\ (HM(poll.etd) < 0 \/ HM(poll.std) < 0) => poll.res = 0
    /\ (HM(poll.etd) >= 0 /\ HM(poll.std) >= 0) =>
         poll.res = (HM(poll.etd) - HM(poll.std)) % MinutesPerDay

\* C14 happens: scheduled 23:55, estimated 00:05 gives 10
C14_Witness ==
  /\ poll.name = "delay"
  /\ poll.std = "23:55"
  /\ poll.etd = "00:05"
  /\ poll.res = 10

\* C15: a train that is not cancelled and whose estimated time is "Delayed"
\* is notification-worthy whatever the delay threshold, and a train whose
\* estimated time is "On time" is never notified as delayed.
C15_DelayedSentinelIsActionable ==
  Polled =>
    \A k \in DOMAIN poll.res.evals :
      LET e == poll.res.evals[k]
          train == PolledTrain(e.i)
          cancelled == Truthy(Get(train, "isCancelled", "false"))
      IN
      /\ (~cancelled /\ train.etd = "Delayed") => e.worthy
      /\ (~cancelled /\ train.etd = "On time") =>
           Eligibility(poll.trip, train).reason
             \in {Absent, "ON TIME - Platform " \o PyStr(train.platform)}

\* C16: while a trip's departure feed is the same on every poll, no alert is
\* sent for the trip after its first one (once it has a record), however
\* much time passes between polls.
C16_UnchangedFeedNotifiesOnce ==
  (Polled /\ pc = "repeat" /\ poll.last_state # EmptyDict) => poll.res.sent = <<>>

\* C17: one check_trip call sends at most one alert, for one of the first
\* three trains of the feed, and it sends one exactly when it overwrites the
\* trip's record: after an alert the record is the one of the alerted train
\* at this instant, and without an alert the state is as it was.
C17_OneAlertIffRecordOverwritten ==
  Polled =>
    /\ Len(poll.res.sent) <= 1
    /\ poll.res.sent # <<>> =>
         /\ poll.res.sent[1].i \in 1..FirstTrains
         /\ poll.name \in DOMAIN poll.res.state
         /\ poll.res.state[poll.name].timestamp = poll.now
         /\ poll.res.state[poll.name].train_time
              = Get(poll.res.sent[1].train, "std", "Unknown")
    /\ poll.res.sent = <<>> => poll.res.state = poll.before

\* the trip is not to be processed at time t: the weekday is not among its
\* days, compared without regard to case, or the time is outside its window
ClaimSkipped(trip, t) ==
  \/ Lower(Weekday(t)) \notin {Lower(day) : day \in trip.days}
  \/ /\ HM(trip.time_start) >= 0
     /\ HM(trip.time_end) >= 0
     /\ MinuteOfDay(t) \notin Window(HM(trip.time_start), HM(trip.time_end))

\* C18: a trip that is inactive on the current weekday or whose window does
\* not hold the current time is skipped: no departures request, no decision,
\* no alert, and the state is returned unchanged.
C18_InactiveTripIsSkipped ==
  (Polled /\ ClaimSkipped(poll.trip, poll.now)) =>
    /\ ~poll.res.raised
    /\ ~poll.res.fetched
    /\ poll.res.evals = <<>>
    /\ poll.res.sent = <<>>
    /\ poll.res.state = poll.before
    /\ pc = "loop" => (state = poll.before /\ idx = poll.idx + 1)

\* C18 happens: after an alert for the first trip, the second trip is
\* outside its window and the first trip's new record is still there
C18_Witness ==
  /\ Polled
  /\ pc = "loop"
  /\ poll.trip = R2Outside
  /\ ~poll.res.fetched
  /\ "r1" \in DOMAIN state
  /\ state["r1"].timestamp = now

\* no train was approved in the last check_trip call
NoneApproved ==
  \A k \in DOMAIN poll.res.evals : poll.res.evals[k].decision \notin ApproveReasons

\* C19: check_trip on a trip leaves the record of every other trip as it
\* was, and the trip's own record too when no train is approved in the poll.
C19_OtherRecordsUntouched ==
  Polled =>
    /\ DOMAIN poll.res.state \subseteq DOMAIN poll.before \cup {poll.name}
    /\ \A n \in DOMAIN poll.before \ {poll.name} :
         n \in DOMAIN poll.res.state /\ poll.res.state[n] = poll.before[n]
    /\ NoneApproved => poll.res.state = poll.before

\* C19 happens: an alert overwrites the trip's record beside another trip's
C19_Witness ==
  /\ Polled
  /\ poll.name = "r1"
  /\ DOMAIN poll.before = {"r1", "r2"}
  /\ poll.res.sent # <<>>
  /\ poll.res.state["r1"] # poll.before["r1"]
  /\ poll.res.state["r2"] = OtherRecord

\* C20: in a run whose save succeeds, every trip an alert was sent for has
\* its record of this run in the saved file; and nothing later in the run
\* -- a later trip with a malformed window included -- leaves a sent alert
\* without its record in the file.
C20_SentAlertsArePersisted ==
  (\/ pc = "done" /\ file = File("valid", state)
   \/ pc = "crashed")
  => \A a \in alerts :
       /\ file.kind = "valid"
       /\ a.name \in DOMAIN file.data
       /\ file.data[a.name].timestamp = now
====
